---------------------------- MODULE Spec2Model ----------------------------
(* A model of src/streamlitApp.py: the Streamlit session (connection flag,  *)
(* schema cache, query history), the schema discovery fallback chain, the   *)
(* prompt composition and statement synthesis, and the regex statement      *)
(* parser with its structured / raw execution paths.                        *)
(*                                                                          *)
(* Python strings are TLA+ strings (TLC evaluates Len, Head, Tail, SubSeq   *)
(* and \o on them). The model's alphabet is ASCII. A TLA+ string literal    *)
(* cannot hold the backtick U+0060, which is written "^" throughout.        *)
(*                                                                          *)
(* Python values are tagged records [t, v]: None, bool, int, float, str,    *)
(* list, tuple and dict (a dict is its sequence of <<key, value>> pairs in  *)
(* insertion order). An object is the dict of its attributes.               *)
EXTENDS Integers, Sequences, FiniteSets, TLC

VARIABLES
    connected,      \* st.session_state.connected
    schema_data,    \* st.session_state.schema_data
    query_history,  \* st.session_state.query_history
    sb,             \* what the store client answers during the current run
    gemini,         \* what the generation endpoint answers during the current run
    op,             \* the handler or function that ran last ("pending": none yet)
    arg,            \* its input
    ret,            \* its return value
    calls,          \* the store calls it made, in order
    posts           \* the prompts it posted to the generation endpoint, in order

vars == <<connected, schema_data, query_history, sb, gemini, op, arg, ret, calls, posts>>

(***************************************************************************)
(* Python values                                                           *)
(***************************************************************************)
PyNone == [t |-> "None", v |-> 0]
PyBool(b) == [t |-> "bool", v |-> b]
PyInt(n) == [t |-> "int", v |-> n]
PyFloat(m, e) == [t |-> "float", v |-> <<m, e>>]
PyStr(s) == [t |-> "str", v |-> s]
PyList(xs) == [t |-> "list", v |-> xs]
PyTuple(xs) == [t |-> "tuple", v |-> xs]
PyDict(kvs) == [t |-> "dict", v |-> kvs]

\* isinstance(x, dict)
IsDict(x) == x.t = "dict"

\* key in d
HasKey(d, key) == \E i \in 1..Len(d.v) : d.v[i][1] = key

\* d[key], for a key d has
Get(d, key) == d.v[CHOOSE i \in 1..Len(d.v) : d.v[i][1] = key][2]

\* d[key] = val: an existing key keeps its place, a new key goes last
SetItem(d, key, val) ==
    IF HasKey(d, key)
    THEN PyDict([i \in 1..Len(d.v) |-> IF d.v[i][1] = key THEN <<key, val>> ELSE d.v[i]])
    ELSE PyDict(Append(d.v, <<key, val>>))

\* Python truthiness of a value
Truthy(x) ==
    CASE x.t = "None" -> FALSE
      [] x.t = "bool" -> x.v
      [] x.t = "int" -> x.v # 0
      [] x.t = "float" -> x.v[1] # 0
      [] x.t = "str" -> x.v # ""
      [] OTHER -> Len(x.v) > 0

(***************************************************************************)
(* Python string methods                                                   *)
(***************************************************************************)
\* s[i-1], "" outside the string
Ch(s, i) == IF 1 <= i /\ i <= Len(s) THEN SubSeq(s, i, i) ELSE ""

UpperLetters == "ABCDEFGHIJKLMNOPQRSTUVWXYZ"
LowerLetters == "abcdefghijklmnopqrstuvwxyz"
DigitChars == "0123456789"

CharsOf(s) == {Ch(s, i) : i \in 1..Len(s)}

UpperSet == CharsOf(UpperLetters)
LowerSet == CharsOf(LowerLetters)
DigitSet == CharsOf(DigitChars)
\* str.strip() and the regex class \s
SpaceSet == {" ", "\t", "\n", "\r", "\f"}
\* the regex class \w
WordSet == UpperSet \cup LowerSet \cup DigitSet \cup {"_"}

IndexIn(c, alphabet) ==
    IF \E i \in 1..Len(alphabet) : Ch(alphabet, i) = c
    THEN CHOOSE i \in 1..Len(alphabet) : Ch(alphabet, i) = c
    ELSE 0

LowerOf == [c \in UpperSet |-> Ch(LowerLetters, IndexIn(c, UpperLetters))]
UpperOf == [c \in LowerSet |-> Ch(UpperLetters, IndexIn(c, LowerLetters))]

LowerCh(c) == IF c \in UpperSet THEN LowerOf[c] ELSE c
UpperCh(c) == IF c \in LowerSet THEN UpperOf[c] ELSE c

RECURSIVE str_lower(_)
str_lower(s) == IF s = "" THEN "" ELSE LowerCh(Head(s)) \o str_lower(Tail(s))

RECURSIVE str_upper(_)
str_upper(s) == IF s = "" THEN "" ELSE UpperCh(Head(s)) \o str_upper(Tail(s))

\* the part of s from position i on
From(s, i) == SubSeq(s, i, Len(s))

startswith(s, p) == Len(p) <= Len(s) /\ SubSeq(s, 1, Len(p)) = p
endswith(s, p) == Len(p) <= Len(s) /\ SubSeq(s, Len(s) - Len(p) + 1, Len(s)) = p

\* sub in s
Contains(s, sub) == \E i \in 1..(Len(s) - Len(sub) + 1) : SubSeq(s, i, i + Len(sub) - 1) = sub

\* s.find(sub) + 1: the first position of sub in s, 0 if there is none
Find(s, sub) ==
    IF Contains(s, sub)
    THEN CHOOSE i \in 1..(Len(s) - Len(sub) + 1) :
            /\ SubSeq(s, i, i + Len(sub) - 1) = sub
            /\ \A j \in 1..(i - 1) : SubSeq(s, j, j + Len(sub) - 1) # sub
    ELSE 0

\* the first position from i on whose character is not in set (Len(s) + 1 if none)
Span(s, i, set) ==
    IF \E j \in i..Len(s) : Ch(s, j) \notin set
    THEN CHOOSE j \in i..Len(s) : Ch(s, j) \notin set /\ \A k \in i..(j - 1) : Ch(s, k) \in set
    ELSE Len(s) + 1

\* the last position up to which s, read backwards, stays in set (0 if all of it)
SpanBack(s, set) ==
    IF \E j \in 1..Len(s) : Ch(s, j) \notin set
    THEN CHOOSE j \in 1..Len(s) : Ch(s, j) \notin set /\ \A k \in (j + 1)..Len(s) : Ch(s, k) \in set
    ELSE 0

str_rstrip(s, set) == SubSeq(s, 1, SpanBack(s, set))
str_lstrip(s, set) == From(s, Span(s, 1, set))
str_strip(s) == str_lstrip(str_rstrip(s, SpaceSet), SpaceSet)

\* s.isdigit()
isdigit(s) == s # "" /\ \A i \in 1..Len(s) : Ch(s, i) \in DigitSet

\* s.split(sep) for a one-character sep: always at least one piece
RECURSIVE split(_, _)
split(s, sep) ==
    LET i == Find(s, sep)
    IN  IF i = 0 THEN <<s>> ELSE <<SubSeq(s, 1, i - 1)>> \o split(From(s, i + 1), sep)

\* s.split(sep, 1)
split1(s, sep) ==
    LET i == Find(s, sep)
    IN  IF i = 0 THEN <<s>> ELSE <<SubSeq(s, 1, i - 1), From(s, i + 1)>>

\* s.replace(old, ""), left to right, non-overlapping
RECURSIVE remove(_, _)
remove(s, old) ==
    LET i == Find(s, old)
    IN  IF i = 0 THEN s ELSE SubSeq(s, 1, i - 1) \o remove(From(s, i + Len(old)), old)

\* sep.join(xs)
RECURSIVE join(_, _)
join(sep, xs) ==
    IF Len(xs) = 0 THEN ""
    ELSE IF Len(xs) = 1 THEN xs[1]
    ELSE xs[1] \o sep \o join(sep, Tail(xs))

\* a regex literal at position i, under re.IGNORECASE (lit is lower case)
LitAt(s, i, lit) ==
    /\ i + Len(lit) - 1 <= Len(s)
    /\ str_lower(SubSeq(s, i, i + Len(lit) - 1)) = lit


Min(S) == CHOOSE x \in S : \A y \in S : x <= y
Max(S) == CHOOSE x \in S : \A y \in S : x >= y

(***************************************************************************)
(* int(str) and float(str)                                                 *)
(***************************************************************************)
\* a digit part of a Python numeric literal: digits, single underscores between them
DigitPart(s) ==
    /\ s # ""
    /\ \A i \in 1..Len(s) : Ch(s, i) \in DigitSet \cup {"_"}
    /\ Ch(s, 1) # "_" /\ Ch(s, Len(s)) # "_"
    /\ ~Contains(s, "__")

Unsigned(s) == IF Ch(s, 1) \in {"+", "-"} THEN Tail(s) ELSE s
Sign(s) == IF Ch(s, 1) = "-" THEN -1 ELSE 1

\* the number a digit part denotes
RECURSIVE DigitsVal(_, _)
DigitsVal(s, acc) ==
    IF s = "" THEN acc
    ELSE IF Head(s) = "_" THEN DigitsVal(Tail(s), acc)
    ELSE DigitsVal(Tail(s), 10 * acc + (IndexIn(Head(s), DigitChars) - 1))

\* int(s) does not raise ValueError
int_parses(s) == DigitPart(Unsigned(s))
int_of(s) == PyInt(Sign(s) * DigitsVal(Unsigned(s), 0))

\* the mantissa and the exponent text of a decimal literal
Mantissa(s) == LET i == Find(str_lower(s), "e") IN IF i = 0 THEN s ELSE SubSeq(s, 1, i - 1)
Exponent(s) == LET i == Find(str_lower(s), "e") IN IF i = 0 THEN "" ELSE From(s, i + 1)
HasExponent(s) == Contains(str_lower(s), "e")
IntDigits(m) == split1(m, ".")[1]
FracDigits(m) == IF Contains(m, ".") THEN split1(m, ".")[2] ELSE ""

\* float(s) does not raise ValueError, for s with a "." (so not inf, nan)
float_parses(s) ==
    LET u == Unsigned(s)
        m == Mantissa(u)
    IN  /\ IF Contains(m, ".")
           THEN /\ IntDigits(m) = "" \/ DigitPart(IntDigits(m))
                /\ FracDigits(m) = "" \/ DigitPart(FracDigits(m))
                /\ IntDigits(m) # "" \/ FracDigits(m) # ""
           ELSE DigitPart(m)
        /\ HasExponent(u) => DigitPart(Unsigned(Exponent(u)))

\* m * 10^e with no trailing zero in m (0 is <<0, 0>>)
RECURSIVE Normal(_, _)
Normal(m, e) ==
    IF m = 0 THEN PyFloat(0, 0)
    ELSE IF m % 10 = 0 THEN Normal(m \div 10, e + 1)
    ELSE PyFloat(m, e)

float_of(s) ==
    LET u == Unsigned(s)
        m == Mantissa(u)
        frac == remove(FracDigits(m), "_")
        x == IF HasExponent(u)
             THEN Sign(Exponent(u)) * DigitsVal(Unsigned(Exponent(u)), 0)
             ELSE 0
    IN  Normal(Sign(s) * DigitsVal(IntDigits(m) \o frac, 0), x - Len(frac))

(***************************************************************************)
(* The value decoders of execute_sql_query                                 *)
(***************************************************************************)
Quoted(value, q) == startswith(value, q) /\ endswith(value, q)

\* value[1:-1]
Inner(value) == SubSeq(value, 2, Len(value) - 1)

\* a value token of INSERT ... VALUES (...)
decode_insert_value(value) ==
    IF str_upper(value) = "NULL" THEN PyNone
    ELSE IF Quoted(value, "'") \/ Quoted(value, "\"") THEN PyStr(Inner(value))
    ELSE IF Contains(value, ".")
         THEN (IF float_parses(value) THEN float_of(value) ELSE PyStr(value))
         ELSE (IF int_parses(value) THEN int_of(value) ELSE PyStr(value))

\* a decoder that reads only all-digit tokens as integers
decode_digits_only(value) ==
    IF str_upper(value) = "NULL" THEN PyNone
    ELSE IF Quoted(value, "'") \/ Quoted(value, "\"") THEN PyStr(Inner(value))
    ELSE IF isdigit(value) THEN int_of(value)
    ELSE IF Contains(value, ".") /\ float_parses(value) THEN float_of(value)
    ELSE PyStr(value)

\* a value token of UPDATE ... SET column = value
decode_update_value(value) ==
    IF str_upper(value) = "NULL" THEN PyNone
    ELSE IF Quoted(value, "'") \/ Quoted(value, "\"") THEN PyStr(Inner(value))
    ELSE IF Contains(value, ".")
         THEN (IF float_parses(value) THEN float_of(value) ELSE PyStr(value))
         ELSE (IF int_parses(value) THEN int_of(value) ELSE PyStr(value))

\* the value token of an equality predicate (UPDATE and DELETE alike)
decode_where_value(where_value) ==
    IF Quoted(where_value, "'") THEN PyStr(Inner(where_value))
    ELSE IF isdigit(where_value) THEN int_of(where_value)
    ELSE PyStr(where_value)

(***************************************************************************)
(* The regular expressions of execute_sql_query. re.match anchors at the   *)
(* start only; "." stops at a newline; a match is [matched, g], g the      *)
(* groups as PyStr, or PyNone for a group that took no part.               *)
(***************************************************************************)
NoMatch == [matched |-> FALSE, g |-> <<>>]
Matched(groups) == [matched |-> TRUE, g |-> groups]

\* no newline in s[a..b]: what ".*" can run over
Dots(s, a, b) == \A k \in a..b : Ch(s, k) # "\n"

\* the end of the longest run of "." from a
DotsEnd(s, a) == Span(s, a, {Ch(s, k) : k \in a..Len(s)} \ {"\n"})

\* r"insert\s+into\s+(\w+)\s*\((.*?)\)\s*values\s*\((.*?)\)", re.IGNORECASE
insert_match(query) ==
    LET e1 == Span(query, 7, SpaceSet)
        e2 == Span(query, e1 + 4, SpaceSet)
        w  == Span(query, e2, WordSet)
        e3 == Span(query, w, SpaceSet)
        cs == e3 + 1
        \* where the value list starts when ")\s*values\s*\(" matches at j, else 0
        ValuesStart(j) ==
            LET e4 == Span(query, j + 1, SpaceSet)
                e5 == Span(query, e4 + 6, SpaceSet)
            IN  IF LitAt(query, e4, "values") /\ Ch(query, e5) = "(" THEN e5 + 1 ELSE 0
        ValuesEnds(vs) == {k \in vs..Len(query) : Ch(query, k) = ")" /\ Dots(query, vs, k - 1)}
        ColsEnds == {j \in cs..Len(query) :
                        /\ Ch(query, j) = ")"
                        /\ Dots(query, cs, j - 1)
                        /\ ValuesStart(j) # 0
                        /\ ValuesEnds(ValuesStart(j)) # {}}
    IN  IF /\ LitAt(query, 1, "insert") /\ e1 > 7
           /\ LitAt(query, e1, "into") /\ e2 > e1 + 4
           /\ w > e2
           /\ Ch(query, e3) = "("
           /\ ColsEnds # {}
        THEN LET j == Min(ColsEnds)
                 vs == ValuesStart(j)
                 k == Min(ValuesEnds(vs))
             IN  Matched(<<PyStr(SubSeq(query, e2, w - 1)),
                           PyStr(SubSeq(query, cs, j - 1)),
                           PyStr(SubSeq(query, vs, k - 1))>>)
        ELSE NoMatch

\* r"update\s+(\w+)\s+set\s+(.*?)\s+where\s+(.*)", re.IGNORECASE
update_match(query) ==
    LET e1 == Span(query, 7, SpaceSet)
        w  == Span(query, e1, WordSet)
        e2 == Span(query, w, SpaceSet)
        s0 == e2 + 3
        e3 == Span(query, s0, SpaceSet)
        \* where group 3 starts when "\s+where\s+" matches at j, else 0
        WhereStart(j) ==
            LET e4 == Span(query, j, SpaceSet)
                e5 == Span(query, e4 + 5, SpaceSet)
            IN  IF e4 > j /\ LitAt(query, e4, "where") /\ e5 > e4 + 5 THEN e5 ELSE 0
        \* the lazy group 2 starting at p can end before j
        SetEnds(p) == {j \in p..Len(query) : Dots(query, p, j - 1) /\ WhereStart(j) # 0}
        \* "\s+" after "set" is greedy: it gives back a space only when it must
        Starts == {p \in (s0 + 1)..e3 : SetEnds(p) # {}}
    IN  IF /\ LitAt(query, 1, "update") /\ e1 > 7
           /\ w > e1
           /\ e2 > w /\ LitAt(query, e2, "set")
           /\ Starts # {}
        THEN LET p == Max(Starts)
                 j == Min(SetEnds(p))
                 ws == WhereStart(j)
             IN  Matched(<<PyStr(SubSeq(query, e1, w - 1)),
                           PyStr(SubSeq(query, p, j - 1)),
                           PyStr(SubSeq(query, ws, DotsEnd(query, ws) - 1))>>)
        ELSE NoMatch

\* r"delete\s+from\s+(\w+)(?:\s+where\s+(.*))?", re.IGNORECASE
delete_match(query) ==
    LET e1 == Span(query, 7, SpaceSet)
        e2 == Span(query, e1 + 4, SpaceSet)
        w  == Span(query, e2, WordSet)
        e3 == Span(query, w, SpaceSet)
        e4 == Span(query, e3 + 5, SpaceSet)
    IN  IF /\ LitAt(query, 1, "delete") /\ e1 > 7
           /\ LitAt(query, e1, "from") /\ e2 > e1 + 4
           /\ w > e2
        THEN Matched(<<PyStr(SubSeq(query, e2, w - 1)),
                       IF e3 > w /\ LitAt(query, e3, "where") /\ e4 > e3 + 5
                       THEN PyStr(SubSeq(query, e4, DotsEnd(query, e4) - 1))
                       ELSE PyNone>>)
        ELSE NoMatch

\* r"(\w+)\s*=\s*(\S+)"
where_match(where_clause) ==
    LET w  == Span(where_clause, 1, WordSet)
        e1 == Span(where_clause, w, SpaceSet)
        e2 == Span(where_clause, e1 + 1, SpaceSet)
        e3 == Span(where_clause, e2, {Ch(where_clause, k) : k \in 1..Len(where_clause)} \ SpaceSet)
    IN  IF w > 1 /\ Ch(where_clause, e1) = "=" /\ e3 > e2
        THEN Matched(<<PyStr(SubSeq(where_clause, 1, w - 1)),
                       PyStr(SubSeq(where_clause, e2, e3 - 1))>>)
        ELSE NoMatch

(***************************************************************************)
(* The store client. A call either raises (exc is str(e)) or returns a     *)
(* response object, the dict of its attributes ("error", "data").          *)
(***************************************************************************)
Raise(msg) == [raises |-> TRUE, exc |-> msg, resp |-> PyNone]
Return(obj) == [raises |-> FALSE, exc |-> "", resp |-> obj]

\* sb.rpc(name, {"sql_query": sql}).execute(), as logged
RpcCall(name, sql) ==
    [api |-> "rpc", name |-> name, table |-> "", data |-> PyNone, eq |-> <<>>, sql |-> sql]

\* sb.table(table).insert(data) / .update(data).eq(c, v) / .delete().eq(c, v) .execute()
TableCall(name, table, data, eq) ==
    [api |-> "table", name |-> name, table |-> table, data |-> data, eq |-> eq, sql |-> ""]

\* what a function did: it returned value (Done) or raised (Throw), after the
\* store calls made
Done(value, made) == [raises |-> FALSE, exc |-> "", ret |-> value, calls |-> made]
Throw(msg, made) == [raises |-> TRUE, exc |-> msg, ret |-> PyNone, calls |-> made]

ErrorDict(msg) == PyDict(<< <<"error", PyStr(msg)>> >>)
WarningDict(msg) == PyDict(<< <<"warning", PyStr(msg)>> >>)
MessageDict(msg) == PyDict(<< <<"message", PyStr(msg)>>, <<"success", PyBool(TRUE)>> >>)

\* hasattr(response, 'error') and response.error
HasError(response) == HasKey(response, "error") /\ Truthy(Get(response, "error"))

\* an outer try without its handler: the fault leaves execute_sql_query
Unhandled(body) == body

\* lines 368-370: the handler of the outer try of execute_sql_query
QueryFailed(body) ==
    IF body.raises THEN Done(ErrorDict("Query failed: " \o body.exc), body.calls) ELSE body

\* a raw path that names the last of insert, update, delete in the statement
raw_execute_reversed(query, env) ==
    LET first == RpcCall("run_sql_query", query)
        second == RpcCall("run_sql", query)
        made == IF env.run_sql_query.raises THEN <<first, second>> ELSE <<first>>
        out == IF env.run_sql_query.raises THEN env.run_sql ELSE env.run_sql_query
        response == out.resp
        lower == str_lower(query)
    IN  IF out.raises THEN Done(ErrorDict("Query failed: " \o out.exc), made)
        ELSE IF HasError(response)
        THEN Done(ErrorDict("Database error: " \o Get(response, "error").v), made)
        ELSE IF HasKey(response, "data")
        THEN IF Truthy(Get(response, "data")) THEN Done(Get(response, "data"), made)
             ELSE IF Contains(lower, "insert") \/ Contains(lower, "update") \/ Contains(lower, "delete")
             THEN LET operation == IF Contains(lower, "delete") THEN "delete"
                                   ELSE IF Contains(lower, "update") THEN "update"
                                   ELSE "insert"
                  IN  Done(MessageDict("The " \o operation \o " operation was executed successfully"), made)
             ELSE Done(PyList(<<>>), made)
        ELSE Done(WarningDict("Query executed but returned no data attribute"), made)

\* a raw path that also tries the secondary RPC when the primary reports an error
raw_execute_eager(query, env) ==
    LET first == RpcCall("run_sql_query", query)
        second == RpcCall("run_sql", query)
        again == env.run_sql_query.raises \/ HasError(env.run_sql_query.resp)
        made == IF again THEN <<first, second>> ELSE <<first>>
        out == IF again THEN env.run_sql ELSE env.run_sql_query
    IN  IF out.raises THEN Done(ErrorDict("Query failed: " \o out.exc), made)
        ELSE IF HasError(out.resp)
        THEN Done(ErrorDict("Database error: " \o Get(out.resp, "error").v), made)
        ELSE IF HasKey(out.resp, "data") THEN Done(Get(out.resp, "data"), made)
        ELSE Done(WarningDict("Query executed but returned no data attribute"), made)

\* the raw path: the primary RPC, the secondary one when the primary raises
raw_execute(query, env) ==
    LET first == RpcCall("run_sql_query", query)
        second == RpcCall("run_sql", query)
        made == IF env.run_sql_query.raises THEN <<first, second>> ELSE <<first>>
        out == IF env.run_sql_query.raises THEN env.run_sql ELSE env.run_sql_query
        response == out.resp
        lower == str_lower(query)
    IN  IF out.raises THEN Done(ErrorDict("Query failed: " \o out.exc), made)
        ELSE IF HasError(response)
        THEN Done(ErrorDict("Database error: " \o Get(response, "error").v), made)
        ELSE IF HasKey(response, "data")
        THEN IF Truthy(Get(response, "data")) THEN Done(Get(response, "data"), made)
             ELSE IF Contains(lower, "insert") \/ Contains(lower, "update") \/ Contains(lower, "delete")
             THEN LET operation == IF Contains(lower, "insert") THEN "insert"
                                   ELSE IF Contains(lower, "update") THEN "update"
                                   ELSE "delete"
                  IN  Done(MessageDict("The " \o operation \o " operation was executed successfully"), made)
             ELSE Done(PyList(<<>>), made)
        ELSE Done(WarningDict("Query executed but returned no data attribute"), made)

\* [part.strip() for part in text.split(',')]
RECURSIVE strip_all(_)
strip_all(parts) ==
    IF Len(parts) = 0 THEN <<>> ELSE <<str_strip(Head(parts))>> \o strip_all(Tail(parts))

\* the row mapping of an INSERT, over the first n columns
RECURSIVE insert_data(_, _, _)
insert_data(columns, values, n) ==
    IF n = 0 THEN PyDict(<<>>)
    ELSE SetItem(insert_data(columns, values, n - 1), columns[n], decode_insert_value(values[n]))

\* the structured insert
insert_execute(match, env) ==
    LET table_name == match.g[1].v
        columns == strip_all(split(match.g[2].v, ","))
        values == strip_all(split(match.g[3].v, ","))
        data == insert_data(columns, values, Len(columns))
        made == <<TableCall("insert", table_name, data, <<>>)>>
        response == env.table.resp
    IN  IF Len(columns) > Len(values) THEN Throw("list index out of range", <<>>)
        ELSE IF env.table.raises THEN Throw(env.table.exc, made)
        ELSE IF HasError(response)
        THEN Done(ErrorDict("Insert failed: " \o Get(response, "error").v), made)
        ELSE IF HasKey(response, "data") THEN Done(Get(response, "data"), made)
        ELSE Done(MessageDict("Insert was executed successfully"), made)

\* the row mapping of an UPDATE: the items with an "=", split once
RECURSIVE update_data(_)
update_data(set_items) ==
    IF Len(set_items) = 0 THEN PyDict(<<>>)
    ELSE LET item == set_items[Len(set_items)]
             before == update_data(SubSeq(set_items, 1, Len(set_items) - 1))
             parts == strip_all(split1(item, "="))
         IN  IF Contains(item, "=")
             THEN SetItem(before, parts[1], decode_update_value(parts[2]))
             ELSE before

\* the structured update, the raw path when the predicate does not match
update_execute(query, match, env) ==
    LET table_name == match.g[1].v
        data == update_data(split(match.g[2].v, ","))
        wm == where_match(match.g[3].v)
        where_column == wm.g[1].v
        where_value == decode_where_value(str_strip(wm.g[2].v))
        made == <<TableCall("update", table_name, data, <<where_column, where_value>>)>>
        response == env.table.resp
    IN  IF ~wm.matched THEN raw_execute(query, env)
        ELSE IF env.table.raises THEN Throw(env.table.exc, made)
        ELSE IF HasError(response)
        THEN Done(ErrorDict("Update failed: " \o Get(response, "error").v), made)
        ELSE IF HasKey(response, "data") THEN Done(Get(response, "data"), made)
        ELSE Done(MessageDict("Update was executed successfully"), made)

\* a delete branch that sends every DELETE to the raw path
unstructured_delete(query, match, env) == raw_execute(query, env)

\* len(response.data) if response.data else 0
rows_affected(data) == IF Truthy(data) THEN Len(data.v) ELSE 0

\* the delete branch: the refusal, the structured delete, or the raw path
delete_execute(query, match, env) ==
    LET table_name == match.g[1].v
        where_clause == IF Truthy(match.g[2]) THEN match.g[2] ELSE PyNone
        wm == where_match(where_clause.v)
        where_column == wm.g[1].v
        where_value == decode_where_value(str_strip(wm.g[2].v))
        made == <<TableCall("delete", table_name, PyNone, <<where_column, where_value>>)>>
        response == env.table.resp
        ok == MessageDict("Delete was executed successfully")
    IN  IF ~Truthy(where_clause)
        THEN Done(ErrorDict("DELETE without WHERE clause is not allowed for safety. Please specify a WHERE condition."), <<>>)
        ELSE IF ~wm.matched THEN raw_execute(query, env)
        ELSE IF env.table.raises THEN Throw(env.table.exc, made)
        ELSE IF HasError(response)
        THEN Done(ErrorDict("Delete failed: " \o Get(response, "error").v), made)
        ELSE IF HasKey(response, "data")
        THEN Done(SetItem(ok, "rows_affected", PyInt(rows_affected(Get(response, "data")))), made)
        ELSE Done(ok, made)

\* query.strip().rstrip(';')
trimmed(query) == str_rstrip(str_strip(query), {";"})

\* lines 235-366: the body of the outer try
execute_body(query0, env) ==
    LET query == trimmed(query0)
        lower == str_lower(query)
    IN  IF startswith(lower, "insert into")
        THEN IF insert_match(query).matched
             THEN insert_execute(insert_match(query), env)
             ELSE raw_execute(query, env)
        ELSE IF startswith(lower, "update")
        THEN IF update_match(query).matched
             THEN update_execute(query, update_match(query), env)
             ELSE raw_execute(query, env)
        ELSE IF startswith(lower, "delete from")
        THEN IF delete_match(query).matched
             THEN delete_execute(query, delete_match(query), env)
             ELSE raw_execute(query, env)
        ELSE raw_execute(query, env)

execute_sql_query(query, conn, env) ==
    IF ~conn THEN Done(ErrorDict("Not connected to database"), <<>>)
    ELSE QueryFailed(execute_body(query, env))

(***************************************************************************)
(* get_supabase_schema                                                     *)
(***************************************************************************)
schema_query ==
    "\n        SELECT table_name, column_name\n        FROM information_schema.columns\n        WHERE table_schema = 'public'\n        ORDER BY table_name, ordinal_position\n        "

\* response.data, an AttributeError when the response has no such attribute
DataOf(out) ==
    IF out.raises THEN out
    ELSE IF HasKey(out.resp, "data") THEN Return(Get(out.resp, "data"))
    ELSE Raise("'APIResponse' object has no attribute 'data'")

\* the loop folding (table_name, column_name) rows into table -> columns; a row
\* without one of the keys raises KeyError
RECURSIVE build_schema(_)
build_schema(rows) ==
    IF Len(rows) = 0 THEN Return(PyDict(<<>>))
    ELSE LET entry == rows[Len(rows)]
             before == build_schema(SubSeq(rows, 1, Len(rows) - 1))
             schema == before.resp
             table == Get(entry, "table_name").v
             column == Get(entry, "column_name")
             listed == IF HasKey(schema, table) THEN schema
                       ELSE SetItem(schema, table, PyList(<<>>))
         IN  IF before.raises THEN before
             ELSE IF ~HasKey(entry, "table_name") THEN Raise("'table_name'")
             ELSE IF ~HasKey(entry, "column_name") THEN Raise("'column_name'")
             ELSE Return(SetItem(listed, table, PyList(Append(Get(listed, table).v, column))))

\* lines 86-122: the body of the outer try
schema_body(env) ==
    LET c1 == RpcCall("get_table_schema", "")
        c2 == RpcCall("run_sql_query", schema_query)
        c3 == RpcCall("run_sql", schema_query)
        d1 == DataOf(env.get_table_schema)
        s1 == build_schema(d1.resp.v)
        d2 == DataOf(env.run_sql_query)
        d3 == DataOf(env.run_sql)
        \* lines 112-122, on the data of the last response
        Finish(data, made) ==
            IF Truthy(data)
            THEN IF build_schema(data.v).raises
                 THEN Throw(build_schema(data.v).exc, made)
                 ELSE Done(build_schema(data.v).resp, made)
            ELSE Done(ErrorDict("No data returned from schema query"), made)
    IN  IF ~d1.raises /\ Truthy(d1.resp) /\ ~s1.raises THEN Done(s1.resp, <<c1>>)
        ELSE IF d2.raises THEN Throw(d2.exc, <<c1, c2>>)
        ELSE IF Truthy(d2.resp) THEN Finish(d2.resp, <<c1, c2>>)
        ELSE IF d3.raises THEN Throw(d3.exc, <<c1, c2, c3>>)
        ELSE Finish(d3.resp, <<c1, c2, c3>>)

\* lines 123-124: the handler of the outer try of get_supabase_schema
SchemaFailed(body) ==
    IF body.raises
    THEN Done(ErrorDict("Exception occurred while fetching schema: " \o body.exc), body.calls)
    ELSE body

get_supabase_schema(conn, env) ==
    IF ~conn THEN Done(ErrorDict("Not connected to database"), <<>>)
    ELSE SchemaFailed(schema_body(env))

(***************************************************************************)
(* format_schema_for_prompt and nl_to_sql_gemini                           *)
(***************************************************************************)
\* ', '.join(columns): a TypeError on a column that is not a str
JoinColumns(columns) ==
    IF \E i \in 1..Len(columns) : columns[i].t # "str"
    THEN Raise("sequence item " \o ToString(Min({i \in 1..Len(columns) : columns[i].t # "str"}) - 1)
               \o ": expected str instance, NoneType found")
    ELSE Return(PyStr(join(", ", [i \in 1..Len(columns) |-> columns[i].v])))

\* the lines "\nTable ^t^ with columns: a, b" of the first n tables
RECURSIVE TableLines(_, _)
TableLines(schema, n) ==
    IF n = 0 THEN Return(PyStr(""))
    ELSE LET before == TableLines(schema, n - 1)
             cols == JoinColumns(schema.v[n][2].v)
         IN  IF before.raises THEN before
             ELSE IF cols.raises THEN cols
             ELSE Return(PyStr(before.resp.v \o "\nTable ^" \o schema.v[n][1]
                               \o "^ with columns: " \o cols.resp.v))

\* schema_data is a dict here (get_supabase_schema returns nothing else)
format_schema_for_prompt(schema) ==
    LET lines == TableLines(schema, Len(schema.v))
    IN  IF IsDict(schema) /\ ~HasKey(schema, "error")
        THEN IF lines.raises THEN lines
             ELSE Return(PyStr("Here is the database schema:\n" \o lines.resp.v))
        ELSE Return(PyStr("Here is the database schema:\n"))

AnyIn(s, words) == \E w \in words : Contains(s, w)

is_update(prompt_lower) == AnyIn(prompt_lower, {"update", "modify", "change", "set"})
is_delete(prompt_lower) == AnyIn(prompt_lower, {"delete", "remove"})
is_insert(prompt_lower) == AnyIn(prompt_lower, {"insert", "add", "create", "new"})
is_select(prompt_lower) == AnyIn(prompt_lower, {"fetch", "show", "get", "select", "find", "list"})

\* r"(?:row|record|id)\s*(?:number)?\s*(\d+)" at position i: where group 1 is, or <<>>
RowRefAt(s, i) ==
    LET word == IF LitAt(s, i, "row") THEN 3
                ELSE IF LitAt(s, i, "record") THEN 6
                ELSE IF LitAt(s, i, "id") THEN 2 ELSE 0
        e1 == Span(s, i + word, SpaceSet)
        e2 == IF LitAt(s, e1, "number") THEN Span(s, e1 + 6, SpaceSet) ELSE e1
        e3 == Span(s, e2, DigitSet)
    IN  IF word # 0 /\ e3 > e2 THEN <<e2, e3 - 1>> ELSE <<>>

\* has_row_reference.group(1) if has_row_reference else None
row_id(prompt_lower) ==
    LET hits == {i \in 1..Len(prompt_lower) : RowRefAt(prompt_lower, i) # <<>>}
    IN  IF hits = {} THEN PyNone
        ELSE LET g == RowRefAt(prompt_lower, Min(hits))
             IN  PyStr(SubSeq(prompt_lower, g[1], g[2]))

SelectGuidance ==
    "\nFor the SELECT query:\n- Use PostgreSQL syntax\n- Use single quotes for strings\n- Use ILIKE for case-insensitive matching"
InsertGuidance ==
    "\nFor the INSERT query:\n- Include all relevant columns from the user's request\n- Do NOT include the id column (it's auto-generated)\n- Do NOT include the created_at column (it's auto-generated)\n- Use single quotes for strings"
UpdateGuidance ==
    "\nFor the UPDATE query:\n- Include all relevant columns to update from the user's request\n- Be sure to include a proper WHERE clause"
DeleteGuidance ==
    "\nFor the DELETE query:\n- Include a proper WHERE clause to avoid deleting all records"

RowCondition(id) ==
    IF Truthy(id) THEN "\n- Use 'WHERE id = " \o id.v \o "' as the condition" ELSE ""

\* lines 171-183
operation_guidance(prompt_lower) ==
    IF is_select(prompt_lower) THEN SelectGuidance
    ELSE IF is_insert(prompt_lower) THEN InsertGuidance
    ELSE IF is_update(prompt_lower) THEN UpdateGuidance \o RowCondition(row_id(prompt_lower))
    ELSE IF is_delete(prompt_lower) THEN DeleteGuidance \o RowCondition(row_id(prompt_lower))
    ELSE ""

common_tables == <<"employees", "customers", "orders", "products", "refund_requests">>

\* lines 185-191: the first common table named (or named without its last letter)
table_hint(prompt_lower, schema_error) ==
    LET Named(i) == \/ Contains(prompt_lower, common_tables[i])
                    \/ Contains(prompt_lower, SubSeq(common_tables[i], 1, Len(common_tables[i]) - 1))
        hits == {i \in 1..Len(common_tables) : Named(i)}
    IN  IF hits # {} /\ schema_error
        THEN "\nYou should use the '" \o common_tables[Min(hits)] \o "' table for this query."
        ELSE ""

FallbackDescription ==
    "Generate SQL using the common tables like 'employees', 'customers', 'orders', 'products', or 'refund_requests' with standard columns."

\* schema_data is None or (isinstance(schema_data, dict) and "error" in schema_data)
SchemaError(schema) == schema.t = "None" \/ (IsDict(schema) /\ HasKey(schema, "error"))

\* lines 154-197: the prompt, or the fault format_schema_for_prompt raises
refined_prompt(prompt, schema) ==
    LET prompt_lower == str_lower(prompt)
        described == IF SchemaError(schema) THEN Return(PyStr(FallbackDescription))
                     ELSE format_schema_for_prompt(schema)
    IN  IF described.raises THEN described
        ELSE Return(PyStr(described.resp.v \o "\n\n"
                 \o "Generate a PostgreSQL query for: " \o prompt \o "."
                 \o operation_guidance(prompt_lower) \o table_hint(prompt_lower, SchemaError(schema))
                 \o "\n\n"
                 \o "Return only the SQL query without any explanation, markdown formatting, or backticks."))

\* d.get(key, default)
GetOr(d, key, default) == IF HasKey(d, key) THEN Get(d, key) ELSE default

\* re.search(r'(SELECT|INSERT|UPDATE|DELETE).*', text, re.IGNORECASE | re.DOTALL): where it starts, 0 if nowhere
sql_match(text) ==
    LET lower == str_lower(text)
        hits == {i \in 1..(Len(text) - 5) :
                    SubSeq(lower, i, i + 5) \in {"select", "insert", "update", "delete"}}
    IN  IF hits = {} THEN 0 ELSE Min(hits)

\* lines 217-222
clean_sql(text0) ==
    LET text == str_strip(remove(remove(text0, "^^^sql"), "^^^"))
    IN  IF sql_match(text) # 0 THEN str_strip(From(text, sql_match(text))) ELSE str_strip(text)

\* lines 210-226, on what requests.post does: the statement, an error dict, or a fault
synthesize_body(answer) ==
    LET response == answer.resp
        data == Get(response, "json")
        candidates == GetOr(data, "candidates", PyList(<<>>))
        content == GetOr(candidates.v[1], "content", PyDict(<<>>))
        parts == GetOr(content, "parts", PyList(<<PyDict(<<>>)>>))
        text == GetOr(parts.v[1], "text", PyStr(""))
    IN  IF answer.raises THEN Raise(answer.exc)
        ELSE IF Get(response, "status_code") # PyInt(200)
        THEN Return(ErrorDict("Gemini API error: " \o Get(response, "text").v))
        ELSE IF ~HasKey(response, "json") THEN Raise("Expecting value: line 1 column 1 (char 0)")
        ELSE IF ~Truthy(candidates) THEN Return(ErrorDict("No candidates returned by Gemini."))
        ELSE IF Len(parts.v) = 0 THEN Raise("list index out of range")
        ELSE Return(PyStr(clean_sql(text.v)))

\* lines 227-228: the handler of the try of nl_to_sql_gemini
synthesize(answer) ==
    IF synthesize_body(answer).raises
    THEN Return(ErrorDict("Error calling Gemini API: " \o synthesize_body(answer).exc))
    ELSE synthesize_body(answer)

\* what nl_to_sql_gemini does: it returns (Return) or raises (Raise), with its posts
Outcome(out, posted) == [out |-> out, posts |-> posted]

nl_to_sql_gemini(prompt, conn, schema, answer) ==
    LET composed == refined_prompt(prompt, schema)
    IN  IF ~conn THEN Outcome(Return(ErrorDict("Not connected to database")), <<>>)
        ELSE IF composed.raises THEN Outcome(composed, <<>>)
        ELSE Outcome(synthesize(answer), <<composed.resp.v>>)

(***************************************************************************)
(* handle_database_query                                                   *)
(***************************************************************************)
HistoryEntry(user_input, sql_query, result) ==
    PyDict(<< <<"user_input", PyStr(user_input)>>, <<"sql_query", sql_query>>, <<"result", result>> >>)

\* what handle_database_query does: out (Return or Raise), the history after it,
\* the store calls and the posts it made
Handled(out, hist, made, sent) == [out |-> out, history |-> hist, calls |-> made, posts |-> sent]

\* an orchestrator that keeps a failed execution out of the history
executed_quiet(run, sql_query, user_input, history, sent) ==
    IF run.raises THEN Handled(Raise(run.exc), history, run.calls, sent)
    ELSE Handled(Return(PyTuple(<<run.ret, sql_query>>)),
                 IF IsDict(run.ret) /\ HasKey(run.ret, "error") THEN history
                 ELSE Append(history, HistoryEntry(user_input, sql_query, run.ret)),
                 run.calls, sent)

\* lines 385-392: the statement was executed
executed(run, sql_query, user_input, history, sent) ==
    IF run.raises THEN Handled(Raise(run.exc), history, run.calls, sent)
    ELSE Handled(Return(PyTuple(<<run.ret, sql_query>>)),
                 Append(history, HistoryEntry(user_input, sql_query, run.ret)), run.calls, sent)

\* an orchestrator that records a failed translation in the history
translated_logging(gen, user_input, conn, history, env) ==
    IF gen.out.raises THEN Handled(gen.out, history, <<>>, gen.posts)
    ELSE IF IsDict(gen.out.resp) /\ HasKey(gen.out.resp, "error")
    THEN Handled(Return(PyTuple(<<gen.out.resp, PyNone>>)),
                 Append(history, HistoryEntry(user_input, gen.out.resp, PyNone)), <<>>, gen.posts)
    ELSE executed(execute_sql_query(gen.out.resp.v, conn, env), gen.out.resp,
                  user_input, history, gen.posts)

\* lines 379-383: the translation came back
translated(gen, user_input, conn, history, env) ==
    IF gen.out.raises THEN Handled(gen.out, history, <<>>, gen.posts)
    ELSE IF IsDict(gen.out.resp) /\ HasKey(gen.out.resp, "error")
    THEN Handled(Return(PyTuple(<<gen.out.resp, PyNone>>)), history, <<>>, gen.posts)
    ELSE executed(execute_sql_query(gen.out.resp.v, conn, env), gen.out.resp,
                  user_input, history, gen.posts)

\* lines 372-392
handle_database_query(user_input, conn, schema, history, answer, env) ==
    IF ~conn THEN Handled(Return(ErrorDict("Not connected to database")), history, <<>>, <<>>)
    ELSE translated(nl_to_sql_gemini(user_input, conn, schema, answer),
                    user_input, conn, history, env)

(***************************************************************************)
(* The answers the store and the generation endpoint can give              *)
(***************************************************************************)
WithData(data) == Return(PyDict(<< <<"data", data>> >>))
WithError(error) == Return(PyDict(<< <<"error", PyStr(error)>>, <<"data", PyNone>> >>))
NoAttributes == Return(PyDict(<<>>))
\* a response with an error attribute and row data
ErrorWithData(error, data) == Return(PyDict(<< <<"error", PyStr(error)>>, <<"data", data>> >>))

ResultRows == PyList(<<PyDict(<< <<"id", PyInt(1)>> >>)>>)

SchemaRow(table, column) ==
    PyDict(<< <<"table_name", PyStr(table)>>, <<"column_name", column>> >>)

\* the rows the discovery call named by tag returns: two tables, one of them its own
GoodRows(tag) ==
    PyList(<<SchemaRow("orders", PyStr("id")), SchemaRow(tag, PyStr("a")),
             SchemaRow("orders", PyStr("amount"))>>)
\* a row without its column_name key
BrokenRows(tag) ==
    PyList(<<SchemaRow(tag, PyStr("a")), PyDict(<< <<"table_name", PyStr(tag)>> >>)>>)
\* a row whose column_name is null
NullRows(tag) == PyList(<<SchemaRow(tag, PyNone)>>)

Store(primary, secondary, tertiary, structured) ==
    [get_table_schema |-> primary, run_sql_query |-> secondary, run_sql |-> tertiary,
     table |-> structured]

Answer(status_code, text) ==
    Return(PyDict(<< <<"status_code", PyInt(status_code)>>, <<"text", PyStr(text)>> >>))
AnswerJson(body) ==
    Return(PyDict(<< <<"status_code", PyInt(200)>>, <<"text", PyStr("{}")>>, <<"json", body>> >>))
Candidates(cs) == AnswerJson(PyDict(<< <<"candidates", PyList(cs)>> >>))
Candidate(text) ==
    PyDict(<< <<"content", PyDict(<< <<"parts", PyList(<<PyDict(<< <<"text", PyStr(text)>> >>)>>)>> >>)>> >>)
Generated(text) == Candidates(<<Candidate(text)>>)

(***************************************************************************)
(* The session: one action per run of the script, by the button pressed    *)
(***************************************************************************)
MaxHistory == 2

StoreUp ==
    Store(WithData(GoodRows("p")), WithData(GoodRows("s")), WithData(GoodRows("t")),
          WithData(ResultRows))
StoreFaulty ==
    Store(Raise("no such function"), Raise("no such function"), WithData(GoodRows("t")),
          Raise("boom"))
StoreOdd ==
    Store(WithData(NullRows("p")), WithError("denied"), Raise("bang"), WithError("denied"))
StoreDown ==
    Store(Raise("down"), WithData(PyList(<<>>)), WithData(PyNone), Raise("down"))

StoreBroken ==
    Store(WithData(BrokenRows("p")), WithData(BrokenRows("s")), NoAttributes, NoAttributes)

Stores == {StoreUp, StoreFaulty, StoreOdd, StoreDown, StoreBroken}

\* the probe of the Connect button: data, no data, a fault
Probes == {WithData(ResultRows), WithData(PyList(<<>>)), Raise("unreachable")}

\* the requests of the session: the text typed, the endpoint's answer, the store
Requests ==
    { <<"show orders", Answer(500, "quota exceeded"), StoreUp>>,
      <<"show orders", Raise("timeout"), StoreUp>>,
      <<"show orders", Candidates(<<>>), StoreUp>>,
      <<"show orders", Generated("^^^sql\nSELECT * FROM orders;\n^^^"), StoreUp>>,
      <<"delete customer 7", Generated("delete from customers where id = 7"), StoreFaulty>>,
      <<"add an order", Generated("insert into orders (customer, amount) values ('Alice', 42.5)"), StoreOdd>>,
      <<"delete everything", Generated("DELETE FROM customers;"), StoreDown>> }

NoStore == Store(Raise(""), Raise(""), Raise(""), Raise(""))
NoAnswer == Raise("")

\* lines 29-36
Init ==
    /\ connected = FALSE
    /\ schema_data = PyNone
    /\ query_history = <<>>
    /\ sb = NoStore
    /\ gemini = NoAnswer
    /\ op = "pending"
    /\ arg = PyNone
    /\ ret = Return(PyNone)
    /\ calls = <<>>
    /\ posts = <<>>

\* what a function did, as the run's ret
AsReturn(did) == IF did.raises THEN Raise(did.exc) ELSE Return(did.ret)

\* lines 404-406: the schema is fetched by any run that finds none while connected
auto_fetch(conn, schema, env) ==
    IF conn /\ schema = PyNone THEN get_supabase_schema(conn, env) ELSE Done(schema, <<>>)

\* lines 409-413: the sidebar joins each table's columns; a TypeError ends the run
DisplayRaises(schema) ==
    /\ Truthy(schema) /\ ~HasKey(schema, "error")
    /\ \E i \in 1..Len(schema.v) : JoinColumns(schema.v[i][2].v).raises

\* lines 47-66, then 404-406
Connect(probe, env) ==
    LET data == DataOf(probe)
        conn == IF data.raises THEN FALSE
                ELSE IF Truthy(data.resp) THEN TRUE
                ELSE connected
        fetched == auto_fetch(conn, schema_data, env)
    IN  /\ connected' = conn
        /\ schema_data' = IF fetched.raises THEN schema_data ELSE fetched.ret
        /\ sb' = env
        /\ op' = "connect"
        /\ arg' = PyNone
        /\ ret' = AsReturn(fetched)
        /\ calls' = <<RpcCall("run_sql", "SELECT 1 as test")>> \o fetched.calls
        /\ UNCHANGED <<query_history, gemini, posts>>

\* lines 395-401
Refresh(env) ==
    LET fetched == get_supabase_schema(connected, env)
    IN  /\ connected
        /\ schema_data' = IF fetched.raises THEN schema_data ELSE fetched.ret
        /\ sb' = env
        /\ op' = "refresh"
        /\ arg' = PyNone
        /\ ret' = AsReturn(fetched)
        /\ calls' = fetched.calls
        /\ UNCHANGED <<connected, query_history, gemini, posts>>

\* lines 416-452: the Submit button, reached when the sidebar was drawn
Submit(user_input, answer, env) ==
    /\ connected /\ ~DisplayRaises(schema_data)
    /\ user_input # ""
    /\ \E h \in {handle_database_query(user_input, connected, schema_data,
                                         query_history, answer, env)} :
          /\ Len(h.history) <= MaxHistory
          /\ query_history' = h.history
          /\ ret' = h.out
          /\ calls' = h.calls
          /\ posts' = h.posts
    /\ sb' = env
    /\ gemini' = answer
    /\ op' = "submit"
    /\ arg' = PyStr(user_input)
    /\ UNCHANGED <<connected, schema_data>>

\* lines 454-456: the Clear Results button
Clear ==
    /\ connected /\ ~DisplayRaises(schema_data)
    /\ query_history' = <<>>
    /\ op' = "clear"
    /\ arg' = PyNone
    /\ ret' = Return(PyNone)
    /\ calls' = <<>>
    /\ UNCHANGED <<connected, schema_data, sb, gemini, posts>>

Next ==
    \/ \E probe \in Probes, env \in Stores : Connect(probe, env)
    \/ \E env \in Stores : Refresh(env)
    \/ \E r \in Requests : Submit(r[1], r[2], r[3])
    \/ Clear

Spec == Init /\ [][Next]_vars

(***************************************************************************)
(* execute_sql_query on its own: every statement of Queries against every  *)
(* store of ExecEnvs                                                       *)
(***************************************************************************)
\* the whitespace between the keywords of a statement
Gaps == {" ", "  ", "\t"}
Ends == {"", ";"}
Tables == {"customers", "\"customers\""}

\* no predicate, one equality, and richer predicates
Wheres ==
    {"", " where id = 7", " WHERE id=7", " where a = 1 AND b = 2", " where a = 1 OR b = 2",
     " where a > 1", " where name = 'John Smith'"}

DeleteQueries ==
    {k[1] \o g \o k[2] \o " " \o t \o w \o e :
        k \in {<<"delete", "from">>, <<"DELETE", "FROM">>, <<"Delete", "From">>},
        g \in Gaps, t \in Tables, w \in Wheres, e \in Ends}

UpdateQueries ==
    {k[1] \o " t " \o k[2] \o " " \o s \o w \o e :
        k \in {<<"update", "set">>, <<"UPDATE", "SET">>},
        s \in {"a = 1", "name = 'x', qty = NULL", "price = 1.5"},
        w \in Wheres, e \in Ends}

InsertQueries ==
    {k[1] \o " orders (" \o c \o ") " \o k[2] \o " (" \o v \o ")" \o e :
        k \in {<<"insert into", "values">>, <<"INSERT INTO", "VALUES">>},
        c \in {"customer, amount", "customer", "a, b, c"},
        v \in {"'Alice', 42.5", "'Bob'", "1, NULL, \"x\""},
        e \in Ends}

OtherQueries ==
    {"select * from orders", "SELECT 1;", "insert into orders values (1)",
     "select updated, deleted from inserts", "SELECT * FROM Deleted_Updates"}

Queries == DeleteQueries \cup UpdateQueries \cup InsertQueries \cup OtherQueries

\* what the raw RPCs answer (run_sql_query, then run_sql) and what the table call answers
RawAnswers ==
    {<<WithData(ResultRows), Raise("unused")>>, <<WithError("denied"), Raise("unused")>>,
     <<Raise("no such function"), WithData(ResultRows)>>, <<Raise("down"), Raise("down")>>,
     <<WithData(PyList(<<>>)), Raise("unused")>>, <<WithData(PyNone), Raise("unused")>>,
     <<NoAttributes, Raise("unused")>>, <<ErrorWithData("denied", ResultRows), Raise("unused")>>,
     <<Raise("first"), Raise("second")>>, <<Raise("first"), WithData(PyList(<<>>))>>,
     <<Raise("first"), WithError("denied")>>,
     <<Return(PyDict(<< <<"error", PyNone>>, <<"data", ResultRows>> >>)), Raise("unused")>>}
TableAnswers == {WithData(ResultRows), WithData(PyList(<<>>)), WithError("denied"), Raise("boom")}

ExecEnvs == {Store(Raise("unused"), r[1], r[2], t) : r \in RawAnswers, t \in TableAnswers}

InitExec ==
    /\ connected = TRUE
    /\ schema_data = PyNone
    /\ query_history = <<>>
    /\ sb \in ExecEnvs
    /\ gemini = NoAnswer
    /\ op = "pending"
    /\ arg \in {PyStr(q) : q \in Queries}
    /\ ret = Return(PyNone)
    /\ calls = <<>>
    /\ posts = <<>>

\* one call of execute_sql_query(arg) against the store sb
Execute ==
    /\ op = "pending"
    /\ \E run \in {execute_sql_query(arg.v, connected, sb)} :
          /\ ret' = AsReturn(run)
          /\ calls' = run.calls
    /\ op' = "execute"
    /\ UNCHANGED <<connected, schema_data, query_history, sb, gemini, arg, posts>>

SpecExec == InitExec /\ [][Execute]_vars

(***************************************************************************)
(* The value decoders on their own: every token of Tokens                  *)
(***************************************************************************)
MaxTokLen == 3

\* the pieces a value token is made of
Atoms == {"1", "07", ".", "'", "\"", "-", "_", "a", "NULL", "null", "e"}

RECURSIVE TokensUpTo(_)
TokensUpTo(n) ==
    IF n = 0 THEN {""}
    ELSE {t \o a : t \in TokensUpTo(n - 1), a \in Atoms \cup {""}}

Tokens == TokensUpTo(MaxTokLen)

InitDecode ==
    /\ connected = TRUE
    /\ schema_data = PyNone
    /\ query_history = <<>>
    /\ sb = NoStore
    /\ gemini = NoAnswer
    /\ op = "pending"
    /\ arg \in {PyStr(t) : t \in Tokens}
    /\ ret = Return(PyNone)
    /\ calls = <<>>
    /\ posts = <<>>

\* the token arg as an INSERT value and as an UPDATE set-value
Decode ==
    /\ op = "pending"
    /\ ret' = Return(PyTuple(<<decode_insert_value(arg.v), decode_update_value(arg.v)>>))
    /\ op' = "decode"
    /\ UNCHANGED <<connected, schema_data, query_history, sb, gemini, arg, calls, posts>>

SpecDecode == InitDecode /\ [][Decode]_vars

(***************************************************************************)
(* nl_to_sql_gemini on its own: every text of Texts, over the schemas the  *)
(* session can hold                                                        *)
(***************************************************************************)
MaxWords == 3

Vocabulary == {"show", "add", "update", "delete", "orders", "row 5", "the"}

RECURSIVE TextsOf(_)
TextsOf(n) ==
    IF n = 1 THEN Vocabulary
    ELSE TextsOf(n - 1) \cup {t \o " " \o w : t \in TextsOf(n - 1), w \in Vocabulary}

Texts == TextsOf(MaxWords)

Schemas == {PyNone, get_supabase_schema(TRUE, StoreUp).ret, get_supabase_schema(TRUE, StoreDown).ret}

InitPrompt ==
    /\ connected = TRUE
    /\ schema_data \in Schemas
    /\ query_history = <<>>
    /\ sb = NoStore
    /\ gemini \in {Generated("SELECT 1"), Answer(500, "quota exceeded")}
    /\ op = "pending"
    /\ arg \in {PyStr(t) : t \in Texts}
    /\ ret = Return(PyNone)
    /\ calls = <<>>
    /\ posts = <<>>

\* one call of nl_to_sql_gemini(arg), the endpoint answering gemini
Translate ==
    /\ op = "pending"
    /\ \E gen \in {nl_to_sql_gemini(arg.v, connected, schema_data, gemini)} :
          /\ ret' = gen.out
          /\ posts' = gen.posts
    /\ op' = "translate"
    /\ UNCHANGED <<connected, schema_data, query_history, sb, gemini, arg, calls>>

SpecPrompt == InitPrompt /\ [][Translate]_vars

(***************************************************************************)
(* Properties of execute_sql_query, under SpecExec                         *)
(***************************************************************************)
\* the words of a text: its maximal runs of non-space characters
RECURSIVE Words(_)
Words(s) ==
    LET a == Span(s, 1, SpaceSet)
        b == Span(s, a, CharsOf(s) \ SpaceSet)
    IN  IF a > Len(s) THEN <<>> ELSE <<SubSeq(s, a, b - 1)>> \o Words(From(s, b))

StatementWords(q) == Words(str_lower(trimmed(q)))

DeleteWithoutWhere(q) ==
    LET w == StatementWords(q)
    IN  /\ Len(w) >= 3 /\ w[1] = "delete" /\ w[2] = "from"
        /\ \A i \in 1..Len(w) : w[i] # "where"

Refusal ==
    ErrorDict("DELETE without WHERE clause is not allowed for safety. Please specify a WHERE condition.")

IsError(out) == ~out.raises /\ IsDict(out.resp) /\ HasKey(out.resp, "error")

TableCalls(cs) == {i \in 1..Len(cs) : cs[i].api = "table"}
RpcCalls(cs) == {i \in 1..Len(cs) : cs[i].api = "rpc"}

\* C1: a DELETE without a WHERE predicate, in any letter case and with any
\* whitespace between its keywords, is refused, and the store receives no call.
C1_DeleteRefused ==
    op = "execute" /\ DeleteWithoutWhere(arg.v) => ret = Return(Refusal) /\ calls = <<>>

UpdateOrDelete(q) ==
    LET w == StatementWords(q) IN Len(w) >= 1 /\ w[1] \in {"update", "delete"}

\* a predicate with AND, OR or a range
RichPredicate(q) ==
    LET l == str_lower(q)
    IN  Contains(l, " where ") /\ (Contains(l, " and ") \/ Contains(l, " or ") \/ Contains(l, ">"))

\* C2: an UPDATE or DELETE whose predicate is richer than one equality makes no
\* structured call; it goes to the raw RPC with its full text.
C2_RichPredicateRaw ==
    op = "execute" /\ UpdateOrDelete(arg.v) /\ RichPredicate(arg.v)
        => /\ calls # <<>>
           /\ \A i \in 1..Len(calls) : calls[i].api = "rpc" /\ calls[i].sql = trimmed(arg.v)

\* the statements execute_sql_query dispatches onto a structured path
StructuredInsert(q) ==
    startswith(str_lower(trimmed(q)), "insert into") /\ insert_match(trimmed(q)).matched
StructuredUpdate(q) ==
    /\ startswith(str_lower(trimmed(q)), "update") /\ update_match(trimmed(q)).matched
    /\ where_match(update_match(trimmed(q)).g[3].v).matched
StructuredDelete(q) ==
    /\ startswith(str_lower(trimmed(q)), "delete from") /\ delete_match(trimmed(q)).matched
    /\ Truthy(delete_match(trimmed(q)).g[2])
    /\ where_match(delete_match(trimmed(q)).g[2].v).matched
Structured(q) == StructuredInsert(q) \/ StructuredUpdate(q) \/ StructuredDelete(q)

\* an INSERT that lists more columns than values
ShortInsert(q) ==
    /\ StructuredInsert(q)
    /\ Len(split(insert_match(trimmed(q)).g[2].v, ",")) > Len(split(insert_match(trimmed(q)).g[3].v, ","))

StructuredName(q) ==
    IF StructuredInsert(q) THEN "insert" ELSE IF StructuredUpdate(q) THEN "update" ELSE "delete"

StructuredFault(env) == env.table.raises \/ HasError(env.table.resp)

Prefixed(out, prefix) == IsError(out) /\ startswith(Get(out.resp, "error").v, prefix)

\* C10: a structured insert that faults (also while its row mapping is built)
\* yields "Insert failed: ...", a structured update that faults "Update failed: ...".
C10_OperationPrefix ==
    op = "execute"
        => /\ StructuredInsert(arg.v) /\ (StructuredFault(sb) \/ ShortInsert(arg.v))
                => Prefixed(ret, "Insert failed: ")
           /\ StructuredUpdate(arg.v) /\ StructuredFault(sb) => Prefixed(ret, "Update failed: ")

(***************************************************************************)
(* Properties of the session, under Spec                                   *)
(***************************************************************************)
\* the endpoint answered with a non-success status or no candidates, or faulted
GenerationFailed(answer) ==
    \/ answer.raises
    \/ Get(answer.resp, "status_code") # PyInt(200)
    \/ /\ HasKey(answer.resp, "json")
       /\ ~Truthy(GetOr(Get(answer.resp, "json"), "candidates", PyList(<<>>)))

GenerationError(answer) ==
    IF answer.raises THEN ErrorDict("Error calling Gemini API: " \o answer.exc)
    ELSE IF Get(answer.resp, "status_code") # PyInt(200)
    THEN ErrorDict("Gemini API error: " \o Get(answer.resp, "text").v)
    ELSE ErrorDict("No candidates returned by Gemini.")

\* C4: when the generation endpoint fails, handle_database_query returns the
\* pair (Error with the response body or fault text, no statement), leaves the
\* history as it was and makes no store call.
C4_FailedGeneration ==
    [][op' = "submit" /\ GenerationFailed(gemini')
         => /\ ret' = Return(PyTuple(<<GenerationError(gemini'), PyNone>>))
            /\ query_history' = query_history
            /\ calls' = <<>>]_vars

\* a 500 answered after one request was recorded
C4_Witness ==
    /\ op = "submit" /\ gemini = Answer(500, "quota exceeded")
    /\ Len(query_history) = 1
    /\ ret = Return(PyTuple(<<ErrorDict("Gemini API error: quota exceeded"), PyNone>>))
    /\ calls = <<>>

\* handle_database_query returned a statement
Synthesized(out) == ~out.raises /\ out.resp.t = "tuple" /\ out.resp.v[2].t = "str"

\* C5: the history is append-only: a request whose synthesis succeeded appends
\* exactly one entry {user_input, sql_query, result} at the end, also when the
\* execution returned an Error; any other step leaves it as it was, but the
\* clear action, which empties it.
C5_AppendOnly ==
    [][/\ op' = "submit" /\ Synthesized(ret')
            => query_history' = Append(query_history,
                                       HistoryEntry(arg'.v, ret'.resp.v[2], ret'.resp.v[1]))
       /\ op' = "submit" /\ ~Synthesized(ret') => query_history' = query_history
       /\ op' = "clear" => query_history' = <<>>
       /\ op' \notin {"submit", "clear"} => query_history' = query_history]_vars

\* two entries, the last one of an execution that returned an Error
C5_Witness ==
    /\ op = "submit" /\ Len(query_history) = 2
    /\ Get(query_history[2], "result") = Refusal
    /\ ret = Return(PyTuple(<<Refusal, PyStr("DELETE FROM customers;")>>))

\* a discovery call that raises or returns no data
Fails(out) == out.raises \/ ~HasKey(out.resp, "data") \/ ~Truthy(Get(out.resp, "data"))

\* C7: when the primary and the secondary discovery call both fail and the
\* tertiary one returns rows, get_supabase_schema returns the mapping built
\* from the tertiary rows.
C7_TertiaryFallback ==
    /\ op = "refresh"
    /\ Fails(sb.get_table_schema) /\ Fails(sb.run_sql_query) /\ ~Fails(sb.run_sql)
    => ret = build_schema(Get(sb.run_sql.resp, "data").v)

\* C9: no stage raises past its boundary: get_supabase_schema, nl_to_sql_gemini
\* and execute_sql_query return a value or an Error, whatever the remote calls
\* do, and get_supabase_schema returns an Error when every discovery path fails.
C9_NoStageRaises ==
    /\ ~ret.raises
    /\ /\ op = "refresh"
       /\ Fails(sb.get_table_schema) /\ Fails(sb.run_sql_query) /\ Fails(sb.run_sql)
       => IsError(ret)

\* a structured call raised inside execute_sql_query, which returned an Error
C9_Witness ==
    /\ op = "submit" /\ sb = StoreFaulty
    /\ ret = Return(PyTuple(<<ErrorDict("Query failed: boom"),
                              PyStr("delete from customers where id = 7")>>))

(***************************************************************************)
(* Properties of the prompt, under SpecPrompt                              *)
(***************************************************************************)
Headers ==
    {"For the SELECT query:", "For the INSERT query:", "For the UPDATE query:", "For the DELETE query:"}

\* the guidance the precedence update > delete > insert > select selects
Precedence(prompt_lower) ==
    IF is_update(prompt_lower) THEN {"For the UPDATE query:"}
    ELSE IF is_delete(prompt_lower) THEN {"For the DELETE query:"}
    ELSE IF is_insert(prompt_lower) THEN {"For the INSERT query:"}
    ELSE IF is_select(prompt_lower) THEN {"For the SELECT query:"}
    ELSE {}

\* C6: the operation guidance of the composed prompt is chosen by the precedence
\* update > delete > insert > select over the keyword flags of the user text,
\* none if no flag is set; a text with update and delete keywords gets the
\* UPDATE guidance.
C6_GuidancePrecedence ==
    op = "translate" /\ posts # <<>>
        => {h \in Headers : Contains(posts[1], h)} = Precedence(str_lower(arg.v))

(***************************************************************************)
(* Properties of the value decoders, under SpecDecode                      *)
(***************************************************************************)
Unquoted(tok) == str_upper(tok) # "NULL" /\ ~Quoted(tok, "'") /\ ~Quoted(tok, "\"")

\* C8 (as stated): NULL in any case decodes to null, a quoted token to its
\* inner text, an unquoted all-digit token to an integer, an unquoted token with
\* a "." to a float, any other token to the raw string, alike for INSERT and UPDATE.
C8_DecoderAsStated ==
    op = "decode"
        => /\ ret.resp.v[1] = ret.resp.v[2]
           /\ str_upper(arg.v) = "NULL" => ret.resp.v[1] = PyNone
           /\ str_upper(arg.v) # "NULL" /\ ~Unquoted(arg.v) => ret.resp.v[1] = PyStr(Inner(arg.v))
           /\ Unquoted(arg.v) /\ isdigit(arg.v) => ret.resp.v[1].t = "int"
           /\ Unquoted(arg.v) /\ ~isdigit(arg.v) /\ Contains(arg.v, ".") => ret.resp.v[1].t = "float"
           /\ Unquoted(arg.v) /\ ~isdigit(arg.v) /\ ~Contains(arg.v, ".")
                => ret.resp.v[1] = PyStr(arg.v)

\* digits, with single underscores between digits only
Digits(s) ==
    /\ s # ""
    /\ \A i \in 1..Len(s) :
          \/ Ch(s, i) \in DigitSet
          \/ Ch(s, i) = "_" /\ Ch(s, i - 1) \in DigitSet /\ Ch(s, i + 1) \in DigitSet

Body(tok) == IF tok # "" /\ Head(tok) \in {"+", "-"} THEN Tail(tok) ELSE tok

\* what int() reads: an optional sign, then digits
SignedDigits(tok) == Digits(Body(tok))

\* what float() reads of a token with a ".": an optional sign, digits around
\* one "." (on one side at least), then an optional exponent
Decimal(tok) ==
    LET b == Body(tok)
        marks == {i \in 1..Len(b) : Ch(b, i) \in {"e", "E"}}
        m == IF marks = {} THEN b ELSE SubSeq(b, 1, Min(marks) - 1)
        x == IF marks = {} THEN "" ELSE From(b, Min(marks) + 1)
        dots == {i \in 1..Len(m) : Ch(m, i) = "."}
        whole == SubSeq(m, 1, Min(dots) - 1)
        frac == From(m, Min(dots) + 1)
    IN  /\ Cardinality(dots) = 1
        /\ whole = "" \/ Digits(whole)
        /\ frac = "" \/ Digits(frac)
        /\ whole # "" \/ frac # ""
        /\ marks # {} => SignedDigits(x)

\* C8 (amended): NULL in any case decodes to null and a quoted token to its
\* inner text; an unquoted token with a "." decodes to a float when it is a
\* decimal literal and to the raw string otherwise; an unquoted token without
\* a "." decodes to an integer when it is an optionally signed run of digits
\* (an all-digit token to its value) and to the raw string otherwise; the
\* INSERT and the UPDATE decoder agree on every token.
C8_DecoderAsCoded ==
    op = "decode"
        => /\ ret.resp.v[1] = ret.resp.v[2]
           /\ str_upper(arg.v) = "NULL" => ret.resp.v[1] = PyNone
           /\ str_upper(arg.v) # "NULL" /\ ~Unquoted(arg.v) => ret.resp.v[1] = PyStr(Inner(arg.v))
           /\ Unquoted(arg.v) /\ isdigit(arg.v) => ret.resp.v[1] = int_of(arg.v)
           /\ Unquoted(arg.v) /\ ~Contains(arg.v, ".") /\ SignedDigits(arg.v)
                => ret.resp.v[1].t = "int"
           /\ Unquoted(arg.v) /\ ~Contains(arg.v, ".") /\ ~SignedDigits(arg.v)
                => ret.resp.v[1] = PyStr(arg.v)
           /\ Unquoted(arg.v) /\ Contains(arg.v, ".") /\ Decimal(arg.v)
                => ret.resp.v[1].t = "float"
           /\ Unquoted(arg.v) /\ Contains(arg.v, ".") /\ ~Decimal(arg.v)
                => ret.resp.v[1] = PyStr(arg.v)

\* a signed token, read as an integer by both decoders
C8_Witness ==
    /\ op = "decode" /\ arg = PyStr("-07")
    /\ ret = Return(PyTuple(<<PyInt(-7), PyInt(-7)>>))

(***************************************************************************)
(* Properties of the raw path of execute_sql_query, under SpecExec         *)
(***************************************************************************)
\* a DELETE the delete branch refuses
Refused(q) ==
    /\ startswith(str_lower(trimmed(q)), "delete from") /\ delete_match(trimmed(q)).matched
    /\ ~Truthy(delete_match(trimmed(q)).g[2])

\* the statements execute_sql_query hands to the raw path
RawDispatch(q) == ~Structured(q) /\ ~Refused(q)

\* C11: raw execution tries the RPC run_sql_query first, tries run_sql if and
\* only if the first raised (not on an error attribute or empty data), makes at
\* most two raw calls, and returns "Query failed: <second fault>" if both raise.
C11_RawFallbackChain ==
    op = "execute" /\ RawDispatch(arg.v)
        => /\ Len(calls) \in {1, 2}
           /\ calls[1] = RpcCall("run_sql_query", trimmed(arg.v))
           /\ Len(calls) = 2 <=> sb.run_sql_query.raises
           /\ Len(calls) = 2 => calls[2] = RpcCall("run_sql", trimmed(arg.v))
           /\ sb.run_sql_query.raises /\ sb.run_sql.raises
                => ret = Return(ErrorDict("Query failed: " \o sb.run_sql.exc))

\* both RPCs raised, each with its own message
C11_Witness ==
    /\ op = "execute" /\ arg = PyStr("select * from orders")
    /\ sb.run_sql_query = Raise("first") /\ sb.run_sql = Raise("second")
    /\ calls = <<RpcCall("run_sql_query", "select * from orders"),
                 RpcCall("run_sql", "select * from orders")>>
    /\ ret = Return(ErrorDict("Query failed: second"))

\* the response of the RPC that answered: the first, the second when the first raised
RawResponse(env) == IF env.run_sql_query.raises THEN env.run_sql ELSE env.run_sql_query

\* the statement mentions the keyword, in any letter case
Mentions(text, keyword) == Contains(str_lower(text), keyword)

\* the five outcomes of a raw execution that returned: when each applies
Outcomes(response, text) ==
    LET failed == HasKey(response, "error") /\ Truthy(Get(response, "error"))
        rows == HasKey(response, "data") /\ Truthy(Get(response, "data"))
        named == \E k \in {"insert", "update", "delete"} : Mentions(text, k)
    IN  [error   |-> failed,
         warning |-> ~failed /\ ~HasKey(response, "data"),
         rowset  |-> ~failed /\ rows,
         message |-> ~failed /\ HasKey(response, "data") /\ ~rows /\ named,
         empty   |-> ~failed /\ HasKey(response, "data") /\ ~rows /\ ~named]

\* the result of each outcome
RawOutcome(kind, response, text) ==
    IF kind = "error" THEN ErrorDict("Database error: " \o Get(response, "error").v)
    ELSE IF kind = "warning" THEN WarningDict("Query executed but returned no data attribute")
    ELSE IF kind = "rowset" THEN Get(response, "data")
    ELSE IF kind = "message"
    THEN MessageDict("The "
            \o (IF Mentions(text, "insert") THEN "insert"
                ELSE IF Mentions(text, "update") THEN "update" ELSE "delete")
            \o " operation was executed successfully")
    ELSE PyList(<<>>)

\* C12: a raw execution whose RPC returned has exactly one of five outcomes: a
\* set error attribute gives "Database error: ..." before the data is looked
\* at; no data attribute the warning; non-empty data that data; empty or absent
\* data with insert, update or delete in the statement (in any letter case) the
\* message naming the first of the three, in that order; otherwise no rows.
C12_RawOutcomes ==
    op = "execute" /\ RawDispatch(arg.v) /\ ~RawResponse(sb).raises
        => LET o == Outcomes(RawResponse(sb).resp, trimmed(arg.v))
           IN  /\ Cardinality({k \in DOMAIN o : o[k]}) = 1
               /\ \A k \in DOMAIN o :
                     o[k] => ret = Return(RawOutcome(k, RawResponse(sb).resp, trimmed(arg.v)))

\* no rows came back for a statement that mentions all three keywords
C12_Witness ==
    /\ op = "execute" /\ arg = PyStr("select updated, deleted from inserts")
    /\ sb.run_sql_query = WithData(PyList(<<>>))
    /\ ret = Return(MessageDict("The insert operation was executed successfully"))

=============================================================================
